---- MODULE Spec2Model ----
(***************************************************************************)
(* Model of the pyroscope agent of src/src/pyroscope.rs: the background    *)
(* task spawned by PyroscopeAgentBuilder::build, the caller's              *)
(* PyroscopeAgent::stop, the stop channel between them and the calls of    *)
(* pyroscope_ingest the task makes.                                        *)
(*                                                                         *)
(* One step of the task is the code it runs between two suspension points  *)
(* (the select! and the await of the HTTP request).                        *)
(***************************************************************************)
EXTENDS Naturals, Integers, Sequences, FiniteSets, TLC

\* Number of interval ticks that time produces after the first, immediate one.
MaxTicks == 3

\* Capacity of mpsc::channel::<()>(1).
ChannelCapacity == 1

\* upload_interval = Duration::from_secs(10).
UploadIntervalSecs == 10

\* start.checked_rem(10): the bucket a report's start time is floored to.
BucketSecs == 10

\* s_until = s_start + 10.
WindowSecs == 10

\* Largest number of entries of a tag map the merge is applied to.
MaxTags == 2

\* Report start times range over FirstStart .. FirstStart + StartSpan.
FirstStart == 12340
StartSpan == 21

\* Number of times one agent is started.
MaxRuns == 2

VARIABLES
    taskPc,         \* position of the spawned task: "loop", "select", "tick_upload", "stop_upload", "done"; "none": no task
    taskResult,     \* output of the task's future, read through the JoinHandle; "none" while it runs
    chan,           \* number of () messages queued in the stop channel
    rxAlive,        \* stop_signal (the Receiver) has not been dropped
    txAlive,        \* stopper (the Sender) has not been dropped
    ticksDue,       \* ticks of `interval` that are ready and not yet consumed
    ticksGenerated, \* ticks time has produced so far
    stopPc,         \* caller: "idle", "sent" (awaiting the handler), "returned", "panicked", "dropped"; "unstarted": built, not started
    stopResult,     \* value stop() returned; "none" before it returns
    inflight,       \* HTTP requests sent and not yet answered
    posts,          \* POST requests issued so far
    ingestCalls,    \* calls of pyroscope_ingest so far
    cycles,         \* select! branches entered so far
    nonEmptyCycles, \* cycles whose folded report was not empty
    cyc,            \* the current or last cycle: branch, payload, response, result
    guards,         \* ProfilerGuards alive
    builds,         \* calls of inner_builder.clone().build() so far
    stopServiced,   \* the stop branch of the select! has been entered
    ticksAfterStop, \* tick branches entered after the stop branch
    stopMidUpload,  \* stop() sent its request while a tick's request was in flight
    flushIngests,   \* calls of pyroscope_ingest made by the stop branch
    application_name, \* the builder's application_name, a string (sequence of characters)
    tags,           \* the builder's tags, as the sequence of (key, value) its HashMap iterates
    seriesName,     \* the name build() computes (it shadows application_name); <<>> until built
    built,          \* merge_tags_with_app_name has been applied to the configuration
    lastPost,       \* query of the last POST: name, start, from, until, format
    buildErrs,      \* calls of inner_builder.clone().build() that returned Err
    runs            \* tasks spawned so far for this agent

vars == <<taskPc, taskResult, chan, rxAlive, txAlive, ticksDue, ticksGenerated,
          stopPc, stopResult, inflight, posts, ingestCalls, cycles,
          nonEmptyCycles, cyc, guards, builds, stopServiced, ticksAfterStop,
          stopMidUpload, flushIngests, application_name, tags, seriesName,
          built, lastPost, buildErrs, runs>>

taskVars == <<taskPc, taskResult, rxAlive>>
callerVars == <<stopPc, stopResult, txAlive, stopMidUpload>>
countVars == <<posts, ingestCalls, cycles, nonEmptyCycles, inflight, flushIngests, lastPost>>
cfgVars == <<application_name, tags, seriesName, built, runs>>

Responses == {"ok", "http_error", "transport_error"}

NoCycle == [branch |-> "none", payload |-> "none", resp |-> "none", result |-> "none"]

NoPost == [name |-> <<>>, start |-> 0, from |-> 0, until |-> 0, format |-> "none"]

----------------------------------------------------------------------------
\* Strings are sequences of characters. Code gives the byte of each character
\* the model uses: String's Ord compares strings byte by byte.
Code ==
    ("," :> 44) @@ ("-" :> 45) @@ ("1" :> 49) @@ ("2" :> 50) @@ ("=" :> 61) @@
    ("_" :> 95) @@ ("a" :> 97) @@ ("c" :> 99) @@ ("d" :> 100) @@ ("e" :> 101) @@
    ("m" :> 109) @@ ("n" :> 110) @@ ("o" :> 111) @@ ("p" :> 112) @@ ("r" :> 114) @@
    ("s" :> 115) @@ ("v" :> 118) @@ ("z" :> 122) @@ ("{" :> 123) @@ ("}" :> 125)

\* "__name__"
ReservedKey == <<"_", "_", "n", "a", "m", "e", "_", "_">>

\* s < t for Strings.
RECURSIVE StrLess(_, _)
StrLess(s, t) ==
    IF t = <<>> THEN FALSE
    ELSE IF s = <<>> THEN TRUE
    ELSE IF Code[Head(s)] < Code[Head(t)] THEN TRUE
    ELSE IF Code[Head(s)] > Code[Head(t)] THEN FALSE
    ELSE StrLess(Tail(s), Tail(t))

RECURSIVE InsertSorted(_, _)
InsertSorted(x, v) ==
    IF v = <<>> THEN <<x>>
    ELSE IF StrLess(x, Head(v)) THEN <<x>> \o v
    ELSE <<Head(v)>> \o InsertSorted(x, Tail(v))

RECURSIVE SortInto(_, _)
SortInto(v, acc) ==
    IF v = <<>> THEN acc ELSE SortInto(Tail(v), InsertSorted(Head(v), acc))

SortStringsNone(v) == v

\* tags_vec.sort(): ascending, stable.
SortStrings(v) == SortInto(v, <<>>)

\* tags_vec.join(",")
RECURSIVE Join(_, _)
Join(v, sep) ==
    IF v = <<>> THEN <<>>
    ELSE IF Len(v) = 1 THEN v[1]
    ELSE v[1] \o sep \o Join(Tail(v), sep)

KeepTagAll(e) == TRUE

\* .filter(|(k, _)| k != "__name__")
KeepTag(e) == e[1] # ReservedKey

\* .map(|(k, v)| format!("{}={}", k, v))
FormatTag(e) == e[1] \o <<"=">> \o e[2]

\* tagSeq is the sequence of entries tags.into_iter() yields.
merge_tags_with_app_name(name, tagSeq) ==
    LET kept == SelectSeq(tagSeq, KeepTag)
        tags_vec == SortStrings([i \in 1..Len(kept) |-> FormatTag(kept[i])])
        tags_str == Join(tags_vec, <<",">>)
    IN  IF tags_str # <<>>
        THEN name \o <<"{">> \o tags_str \o <<"}">>
        ELSE name

WindowNoFloor(start) == [from |-> start, until |-> start + WindowSecs]

\* s_start = start - start % 10; s_until = s_start + 10 (u64; no start time
\* in range comes near the width).
Window(start) ==
    LET s_start == start - (start % BucketSecs)
    IN  [from |-> s_start, until |-> s_start + WindowSecs]

PostQueryRawName(start) ==
    [name |-> application_name, start |-> start, from |-> Window(start).from,
     until |-> Window(start).until, format |-> "folded"]

\* The query of the POST: name, from, until, format (start is the report's
\* start time the window is computed from).
PostQuery(start) ==
    [name |-> seriesName, start |-> start, from |-> Window(start).from,
     until |-> Window(start).until, format |-> "folded"]

\* Inputs of the pure functions.
Names == {<<"a">>, <<"s", "v", "c">>}
Keys == {<<"a">>, <<"z">>, <<"a", "-">>, <<"e", "n", "v">>, ReservedKey}
Values == {<<"1">>, <<"2">>, <<"p", "r", "o", "d">>}

\* Every enumeration of every map of at most MaxTags entries (keys unique).
TagOrders ==
    UNION { { t \in [1..n -> Keys \X Values] :
                \A i, j \in 1..n : i # j => t[i][1] # t[j][1] } : n \in 0..MaxTags }

StartTimes == (0..StartSpan) \cup (FirstStart..(FirstStart + StartSpan))

\* Configurations and report start times of the agent whose run is explored.
AgentConfigs ==
    { <<<<"s", "v", "c">>, << <<<<"e", "n", "v">>, <<"p", "r", "o", "d">>>> >>>>,
      <<<<"a">>, << <<<<"z">>, <<"1">>>>, <<<<"a">>, <<"2">>>> >>>> }

ReportStarts == {FirstStart + 5, FirstStart + 10}

TypeOK ==
    /\ taskPc \in {"none", "loop", "select", "tick_upload", "stop_upload", "done"}
    /\ taskResult \in {"none", "Ok", "CaptureInitError", "CaptureSnapshotError", "IngestError"}
    /\ chan \in 0..ChannelCapacity
    /\ rxAlive \in BOOLEAN /\ txAlive \in BOOLEAN
    /\ ticksDue \in Nat /\ ticksGenerated \in Nat
    /\ stopPc \in {"unstarted", "idle", "sent", "returned", "panicked", "dropped"}
    /\ stopResult \in {"none", "Ok", "CaptureInitError", "CaptureSnapshotError", "IngestError", "NotRunning"}
    /\ inflight \in Nat /\ posts \in Nat /\ ingestCalls \in Nat
    /\ cycles \in Nat /\ nonEmptyCycles \in Nat
    /\ cyc.branch \in {"none", "tick", "stop"}
    /\ cyc.payload \in {"none", "empty", "nonempty"}
    /\ cyc.resp \in {"none"} \cup Responses
    /\ cyc.result \in {"none", "pending", "Ok", "CaptureSnapshotError", "IngestError"}
    /\ guards \in Nat /\ builds \in Nat
    /\ stopServiced \in BOOLEAN
    /\ ticksAfterStop \in Nat
    /\ stopMidUpload \in BOOLEAN
    /\ flushIngests \in Nat
    /\ application_name \in Names
    /\ tags \in TagOrders
    /\ built \in BOOLEAN
    /\ lastPost.format \in {"none", "folded"}
    /\ lastPost.from \in Nat /\ lastPost.until \in Nat /\ lastPost.start \in Nat
    /\ buildErrs \in Nat /\ runs \in Nat

\* build() has returned Ok(PyroscopeAgent): the channel and the interval exist,
\* the task is spawned and has not run yet. The first tick of a tokio interval
\* is ready at once.
Init ==
    /\ taskPc = "loop"
    /\ taskResult = "none"
    /\ chan = 0
    /\ rxAlive = TRUE
    /\ txAlive = TRUE
    /\ ticksDue = 1
    /\ ticksGenerated = 0
    /\ stopPc = "idle"
    /\ stopResult = "none"
    /\ inflight = 0
    /\ posts = 0
    /\ ingestCalls = 0
    /\ cycles = 0
    /\ nonEmptyCycles = 0
    /\ cyc = NoCycle
    /\ guards = 0
    /\ builds = 0
    /\ stopServiced = FALSE
    /\ ticksAfterStop = 0
    /\ stopMidUpload = FALSE
    /\ flushIngests = 0
    /\ \E c \in AgentConfigs :
         /\ application_name = c[1]
         /\ tags = c[2]
         /\ seriesName = merge_tags_with_app_name(c[1], c[2])
    /\ built = TRUE
    /\ lastPost = NoPost
    /\ buildErrs = 0
    /\ runs = 1

----------------------------------------------------------------------------
\* The task's future completes with r: its captured state (stop_signal,
\* interval) is dropped and the JoinHandle becomes ready.
TaskExit(r) ==
    /\ taskPc' = "done"
    /\ taskResult' = r
    /\ rxAlive' = FALSE

TaskGoto(pc) ==
    /\ taskPc' = pc
    /\ UNCHANGED <<taskResult, rxAlive>>

\* `.send().await?; Ok(())`: only a transport failure is an Err; a response,
\* whatever its status, is discarded.
IngestOutcome(resp) ==
    IF resp = "transport_error" THEN "IngestError" ELSE "Ok"

SkipsNetworkNever(payloadEmpty) == FALSE

\* `if buffer.is_empty() { return Ok(()); }`
SkipsNetwork(payloadEmpty) == payloadEmpty

AwaitPcDetached(branch) == "loop"

\* The branch awaits pyroscope_ingest, which awaits the request: the task is
\* suspended inside the branch until the request is answered.
AwaitPc(branch) ==
    IF branch = "tick" THEN "tick_upload" ELSE "stop_upload"

AfterCycleOkNoBreak(branch) == "loop"

AfterCycleOkKeepGuard(branch) == IF branch = "stop" THEN "done" ELSE "select"

AfterCycleOkAlwaysBreak(branch) == "done"

\* The tick branch falls through to the next iteration; the stop branch ends
\* with `break Ok(())`.
AfterCycleOk(branch) ==
    IF branch = "stop" THEN "done" ELSE "loop"

Continue(branch) ==
    IF AfterCycleOk(branch) = "done"
    THEN TaskExit("Ok")
    ELSE TaskGoto(AfterCycleOk(branch))

DropGuardLeak == UNCHANGED guards

\* The guard goes out of scope: at the end of the match arm, on a `?` return
\* and on `break`.
DropGuard == guards' = guards - 1

ObservesStopMidUpload == taskPc \in {"select", "tick_upload"}

\* stop_signal.recv() is polled only by the select!.
ObservesStop == taskPc = "select"

JoinReadyAlways == TRUE

\* self.handler.await completes when the task's future has completed.
JoinReady == taskPc = "done"

----------------------------------------------------------------------------
BuildGuardRetry ==
    /\ taskPc = "loop"
    /\ builds' = builds + 1
    /\ \E ok \in BOOLEAN :
         IF ok
         THEN /\ TaskGoto("select")
              /\ guards' = guards + 1
              /\ UNCHANGED buildErrs
         ELSE /\ TaskGoto("loop")
              /\ buildErrs' = buildErrs + 1
              /\ UNCHANGED guards
    /\ UNCHANGED <<chan, ticksDue, ticksGenerated, cyc, stopServiced, ticksAfterStop>>
    /\ UNCHANGED callerVars
    /\ UNCHANGED countVars
    /\ UNCHANGED cfgVars

\* Top of the loop: self.inner_builder.clone().build().
BuildGuard ==
    /\ taskPc = "loop"
    /\ builds' = builds + 1
    /\ \E ok \in BOOLEAN :
         IF ok
         THEN /\ TaskGoto("select")
              /\ guards' = guards + 1
              /\ UNCHANGED buildErrs
         ELSE /\ TaskExit("CaptureInitError")
              /\ buildErrs' = buildErrs + 1
              /\ UNCHANGED guards
    /\ UNCHANGED <<chan, ticksDue, ticksGenerated, cyc, stopServiced, ticksAfterStop>>
    /\ UNCHANGED callerVars
    /\ UNCHANGED countVars
    /\ UNCHANGED cfgVars

\* The body of either select! branch up to its first suspension:
\* guard.report().build()?, then pyroscope_ingest up to `.send().await`.
Cycle(branch) ==
    /\ cycles' = cycles + 1
    /\ \E capOk \in BOOLEAN, payloadEmpty \in BOOLEAN :
         IF ~capOk
         THEN /\ cyc' = [branch |-> branch, payload |-> "none", resp |-> "none",
                         result |-> "CaptureSnapshotError"]
              /\ TaskExit("CaptureSnapshotError")
              /\ DropGuard
              /\ UNCHANGED <<ingestCalls, nonEmptyCycles, posts, inflight, flushIngests, lastPost>>
         ELSE /\ ingestCalls' = ingestCalls + 1
              /\ flushIngests' = IF branch = "stop" THEN flushIngests + 1 ELSE flushIngests
              /\ nonEmptyCycles' = IF payloadEmpty THEN nonEmptyCycles ELSE nonEmptyCycles + 1
              /\ IF SkipsNetwork(payloadEmpty)
                 THEN /\ cyc' = [branch |-> branch,
                                 payload |-> IF payloadEmpty THEN "empty" ELSE "nonempty",
                                 resp |-> "none", result |-> "Ok"]
                      /\ Continue(branch)
                      /\ DropGuard
                      /\ UNCHANGED <<posts, inflight, lastPost>>
                 ELSE /\ cyc' = [branch |-> branch,
                                 payload |-> IF payloadEmpty THEN "empty" ELSE "nonempty",
                                 resp |-> "none", result |-> "pending"]
                      /\ posts' = posts + 1
                      /\ \E start \in ReportStarts : lastPost' = PostQuery(start)
                      /\ inflight' = inflight + 1
                      /\ TaskGoto(AwaitPc(branch))
                      /\ UNCHANGED guards

\* select! takes `_ = interval.tick()`.
Tick ==
    /\ taskPc = "select"
    /\ ticksDue > 0
    /\ ticksDue' = ticksDue - 1
    /\ ticksAfterStop' = IF stopServiced THEN ticksAfterStop + 1 ELSE ticksAfterStop
    /\ Cycle("tick")
    /\ UNCHANGED <<chan, ticksGenerated, builds, stopServiced>>
    /\ UNCHANGED callerVars
    /\ UNCHANGED <<cfgVars, buildErrs>>

\* select! takes `_ = stop_signal.recv()`: a queued message, or None once the
\* sender is dropped and the queue is empty.
ServiceStop ==
    /\ ObservesStop
    /\ chan > 0 \/ ~txAlive
    /\ chan' = IF chan > 0 THEN chan - 1 ELSE chan
    /\ stopServiced' = TRUE
    /\ Cycle("stop")
    /\ UNCHANGED <<ticksDue, ticksGenerated, builds, ticksAfterStop>>
    /\ UNCHANGED callerVars
    /\ UNCHANGED <<cfgVars, buildErrs>>

\* The request sent by pyroscope_ingest is answered (or fails), and the branch
\* that awaited it runs to its end.
IngestReturn ==
    /\ taskPc \in {"tick_upload", "stop_upload"}
    /\ inflight > 0
    /\ inflight' = inflight - 1
    /\ DropGuard
    /\ \E resp \in Responses :
         /\ cyc' = [cyc EXCEPT !.resp = resp, !.result = IngestOutcome(resp)]
         /\ IF IngestOutcome(resp) = "Ok"
            THEN Continue(cyc.branch)
            ELSE TaskExit(IngestOutcome(resp))
    /\ UNCHANGED <<chan, ticksDue, ticksGenerated, builds, stopServiced, ticksAfterStop>>
    /\ UNCHANGED <<posts, ingestCalls, cycles, nonEmptyCycles, flushIngests, lastPost>>
    /\ UNCHANGED callerVars
    /\ UNCHANGED <<cfgVars, buildErrs>>

\* Another period of upload_interval elapses while the interval exists.
TimePasses ==
    /\ taskPc \notin {"none", "done"}
    /\ ticksGenerated < MaxTicks
    /\ ticksGenerated' = ticksGenerated + 1
    /\ ticksDue' = ticksDue + 1
    /\ UNCHANGED <<chan, cyc, guards, builds, stopServiced, ticksAfterStop>>
    /\ UNCHANGED taskVars
    /\ UNCHANGED callerVars
    /\ UNCHANGED countVars
    /\ UNCHANGED <<cfgVars, buildErrs>>

\* stop(), first statement: self.stopper.send(()).await.unwrap().
StopSend ==
    /\ stopPc = "idle"
    /\ IF rxAlive
       THEN /\ chan < ChannelCapacity
            /\ chan' = chan + 1
            /\ stopPc' = "sent"
            /\ stopMidUpload' = (taskPc = "tick_upload")
       ELSE /\ stopPc' = "panicked"
            /\ UNCHANGED <<chan, stopMidUpload>>
    /\ UNCHANGED <<stopResult, txAlive>>
    /\ UNCHANGED <<ticksDue, ticksGenerated, cyc, guards, builds, stopServiced, ticksAfterStop>>
    /\ UNCHANGED taskVars
    /\ UNCHANGED countVars
    /\ UNCHANGED <<cfgVars, buildErrs>>

\* stop(), second statement: self.handler.await.unwrap()?; Ok(()). The agent,
\* and with it the sender, is dropped when stop returns.
StopJoin ==
    /\ stopPc = "sent"
    /\ JoinReady
    /\ stopPc' = "returned"
    /\ stopResult' = taskResult
    /\ txAlive' = FALSE
    /\ UNCHANGED stopMidUpload
    /\ UNCHANGED <<chan, ticksDue, ticksGenerated, cyc, guards, builds, stopServiced, ticksAfterStop>>
    /\ UNCHANGED taskVars
    /\ UNCHANGED countVars
    /\ UNCHANGED <<cfgVars, buildErrs>>

\* The caller drops the PyroscopeAgent without calling stop(): the sender is
\* dropped and the JoinHandle is detached.
DropAgent ==
    /\ stopPc = "idle"
    /\ stopPc' = "dropped"
    /\ txAlive' = FALSE
    /\ UNCHANGED <<stopResult, stopMidUpload>>
    /\ UNCHANGED <<chan, ticksDue, ticksGenerated, cyc, guards, builds, stopServiced, ticksAfterStop>>
    /\ UNCHANGED taskVars
    /\ UNCHANGED countVars
    /\ UNCHANGED <<cfgVars, buildErrs>>

Next ==
    \/ BuildGuard
    \/ Tick
    \/ ServiceStop
    \/ IngestReturn
    \/ TimePasses
    \/ StopSend
    \/ StopJoin
    \/ DropAgent

Spec == Init /\ [][Next]_vars

----------------------------------------------------------------------------
\* The agent of examples/basic.rs, which is started, stopped and started
\* again: build() only configures it, start() spawns the background task and
\* stop() borrows the agent. The task is the one modelled above.
LifecycleInit ==
    /\ taskPc = "none"
    /\ taskResult = "none"
    /\ chan = 0
    /\ rxAlive = FALSE
    /\ txAlive = FALSE
    /\ ticksDue = 0
    /\ ticksGenerated = 0
    /\ stopPc = "unstarted"
    /\ stopResult = "none"
    /\ inflight = 0
    /\ posts = 0
    /\ ingestCalls = 0
    /\ cycles = 0
    /\ nonEmptyCycles = 0
    /\ cyc = NoCycle
    /\ guards = 0
    /\ builds = 0
    /\ stopServiced = FALSE
    /\ ticksAfterStop = 0
    /\ stopMidUpload = FALSE
    /\ flushIngests = 0
    /\ \E c \in AgentConfigs :
         /\ application_name = c[1]
         /\ tags = c[2]
         /\ seriesName = merge_tags_with_app_name(c[1], c[2])
    /\ built = TRUE
    /\ lastPost = NoPost
    /\ buildErrs = 0
    /\ runs = 0

AgentStartStale ==
    /\ stopPc \in {"unstarted", "returned"}
    /\ runs < MaxRuns
    /\ runs' = runs + 1
    /\ taskPc' = "loop"
    /\ taskResult' = "none"
    /\ UNCHANGED <<chan, rxAlive, txAlive>>
    /\ ticksDue' = 1
    /\ ticksGenerated' = 0
    /\ stopPc' = "idle"
    /\ inflight' = 0
    /\ posts' = 0
    /\ ingestCalls' = 0
    /\ cycles' = 0
    /\ nonEmptyCycles' = 0
    /\ flushIngests' = 0
    /\ cyc' = NoCycle
    /\ guards' = 0
    /\ builds' = 0
    /\ buildErrs' = 0
    /\ stopServiced' = FALSE
    /\ ticksAfterStop' = 0
    /\ stopMidUpload' = FALSE
    /\ lastPost' = NoPost
    /\ UNCHANGED <<application_name, tags, seriesName, built, stopResult>>

\* start(): Idle -> Running. A new stop channel and interval are created and
\* a new background task is spawned; the configuration is kept.
AgentStart ==
    /\ stopPc \in {"unstarted", "returned"}
    /\ runs < MaxRuns
    /\ runs' = runs + 1
    /\ taskPc' = "loop"
    /\ taskResult' = "none"
    /\ chan' = 0
    /\ rxAlive' = TRUE
    /\ txAlive' = TRUE
    /\ ticksDue' = 1
    /\ ticksGenerated' = 0
    /\ stopPc' = "idle"
    /\ inflight' = 0
    /\ posts' = 0
    /\ ingestCalls' = 0
    /\ cycles' = 0
    /\ nonEmptyCycles' = 0
    /\ flushIngests' = 0
    /\ cyc' = NoCycle
    /\ guards' = 0
    /\ builds' = 0
    /\ buildErrs' = 0
    /\ stopServiced' = FALSE
    /\ ticksAfterStop' = 0
    /\ stopMidUpload' = FALSE
    /\ lastPost' = NoPost
    /\ UNCHANGED <<application_name, tags, seriesName, built, stopResult>>

\* stop() on a running agent: the stop request is sent if the task still
\* listens, and the caller goes on to wait for the task (StopJoin).
AgentStopSend ==
    /\ stopPc = "idle"
    /\ IF rxAlive
       THEN /\ chan < ChannelCapacity
            /\ chan' = chan + 1
            /\ stopMidUpload' = (taskPc = "tick_upload")
       ELSE UNCHANGED <<chan, stopMidUpload>>
    /\ stopPc' = "sent"
    /\ UNCHANGED <<stopResult, txAlive>>
    /\ UNCHANGED <<ticksDue, ticksGenerated, cyc, guards, builds, stopServiced, ticksAfterStop>>
    /\ UNCHANGED taskVars
    /\ UNCHANGED countVars
    /\ UNCHANGED <<cfgVars, buildErrs>>

AgentStopNotRunningPanics ==
    /\ stopPc \in {"unstarted", "returned"}
    /\ stopResult # "NotRunning"
    /\ stopPc' = "panicked"
    /\ UNCHANGED <<stopResult, txAlive, stopMidUpload>>
    /\ UNCHANGED <<chan, ticksDue, ticksGenerated, cyc, guards, builds, stopServiced, ticksAfterStop>>
    /\ UNCHANGED taskVars
    /\ UNCHANGED countVars
    /\ UNCHANGED <<cfgVars, buildErrs>>

\* stop() on an agent that is not running (never started, or already
\* stopped): it returns the "not running" condition at once.
AgentStopNotRunning ==
    /\ stopPc \in {"unstarted", "returned"}
    /\ stopResult # "NotRunning"
    /\ stopResult' = "NotRunning"
    /\ UNCHANGED <<stopPc, txAlive, stopMidUpload>>
    /\ UNCHANGED <<chan, ticksDue, ticksGenerated, cyc, guards, builds, stopServiced, ticksAfterStop>>
    /\ UNCHANGED taskVars
    /\ UNCHANGED countVars
    /\ UNCHANGED <<cfgVars, buildErrs>>

LifecycleNext ==
    \/ AgentStart
    \/ BuildGuard
    \/ Tick
    \/ ServiceStop
    \/ IngestReturn
    \/ TimePasses
    \/ AgentStopSend
    \/ StopJoin
    \/ AgentStopNotRunning

LifecycleSpec == LifecycleInit /\ [][LifecycleNext]_vars

----------------------------------------------------------------------------
\* The pure functions on their own: a builder holding any name and any tags,
\* before build(), and a report with any start time.
PureInit ==
    /\ taskPc = "none"
    /\ taskResult = "none"
    /\ chan = 0
    /\ rxAlive = FALSE
    /\ txAlive = FALSE
    /\ ticksDue = 0
    /\ ticksGenerated = 0
    /\ stopPc = "idle"
    /\ stopResult = "none"
    /\ inflight = 0
    /\ posts = 0
    /\ ingestCalls = 0
    /\ cycles = 0
    /\ nonEmptyCycles = 0
    /\ cyc = NoCycle
    /\ guards = 0
    /\ builds = 0
    /\ stopServiced = FALSE
    /\ ticksAfterStop = 0
    /\ stopMidUpload = FALSE
    /\ flushIngests = 0
    /\ application_name \in Names
    /\ tags \in TagOrders
    /\ seriesName = <<>>
    /\ built = FALSE
    /\ lastPost = NoPost
    /\ buildErrs = 0
    /\ runs = 0

\* build(), first statement: merge_tags_with_app_name(self.application_name, self.tags).
PureMerge ==
    /\ taskPc = "none"
    /\ ~built
    /\ lastPost = NoPost
    /\ built' = TRUE
    /\ seriesName' = merge_tags_with_app_name(application_name, tags)
    /\ UNCHANGED <<application_name, tags, runs, buildErrs>>
    /\ UNCHANGED <<chan, ticksDue, ticksGenerated, cyc, guards, builds, stopServiced, ticksAfterStop>>
    /\ UNCHANGED taskVars
    /\ UNCHANGED callerVars
    /\ UNCHANGED countVars

\* pyroscope_ingest, the window of a report that started at `start`.
PureWindow ==
    /\ taskPc = "none"
    /\ ~built
    /\ lastPost = NoPost
    /\ \E start \in StartTimes :
         lastPost' = [NoPost EXCEPT !.start = start,
                                    !.from = Window(start).from,
                                    !.until = Window(start).until]
    /\ UNCHANGED <<cfgVars, buildErrs>>
    /\ UNCHANGED <<posts, ingestCalls, cycles, nonEmptyCycles, inflight, flushIngests>>
    /\ UNCHANGED <<chan, ticksDue, ticksGenerated, cyc, guards, builds, stopServiced, ticksAfterStop>>
    /\ UNCHANGED taskVars
    /\ UNCHANGED callerVars

PureNext ==
    \/ PureMerge
    \/ PureWindow

PureSpec == PureInit /\ [][PureNext]_vars

----------------------------------------------------------------------------
\* C1: whenever stop() has ended it has returned (not panicked), and the value
\* it returned is the task's result: the failure of the last cycle the task
\* executed if there was one, else success.
C1_StopReturnsLastCycleResult ==
    stopPc \in {"returned", "panicked"} =>
        /\ stopPc = "returned"
        /\ stopResult = taskResult

\* C2: stop() never panics, also when the task has ended on its own and has
\* dropped the stop-signal receiver before stop() sends its request.
C2_StopNeverPanics ==
    stopPc # "panicked"

\* C3: when the first build of the capture guard fails, the task is launched
\* all the same and a stop() that has ended returned the initialization error.
C3_StopReturnsCaptureInitError ==
    (builds = 1 /\ taskResult = "CaptureInitError" /\ stopPc \in {"returned", "panicked"}) =>
        /\ stopPc = "returned"
        /\ stopResult = "CaptureInitError"

\* C4: when the upload of a tick fails, the task goes on to the next loop
\* iteration: it does not terminate.
C4_FailedTickKeepsLoopRunning ==
    [][(taskPc = "tick_upload" /\ cyc'.result = "IngestError") => taskPc' = "loop"]_vars

\* C5 as stated: once the task has serviced the stop request and ended, it has
\* made exactly one ingest call for the final report and its result is success
\* or that upload's error.
C5_FinalFlushAlwaysUploads ==
    (stopServiced /\ taskPc = "done") =>
        /\ flushIngests = 1
        /\ taskResult \in {"Ok", "IngestError"}

\* C5 amended: once the task has serviced the stop request it runs one final
\* cycle and then exits, and no tick is serviced after it; the final cycle
\* captures one report and, unless the capture fails, passes it once to the
\* ingest path; the task's result is success or the final cycle's capture or
\* upload error.
C5_FinalFlushThenExit ==
    stopServiced =>
        /\ ticksAfterStop = 0
        /\ cyc.branch = "stop"
        /\ flushIngests <= 1
        /\ taskPc \in {"stop_upload", "done"}
        /\ taskPc = "stop_upload" => (inflight = 1 /\ flushIngests = 1 /\ cyc.result = "pending")
        /\ taskPc = "done" =>
             /\ taskResult = cyc.result
             /\ taskResult \in {"Ok", "IngestError", "CaptureSnapshotError"}
             /\ (taskResult = "CaptureSnapshotError") <=> (flushIngests = 0)

C5_Witness ==
    /\ stopServiced
    /\ taskPc = "done"
    /\ flushIngests = 1
    /\ taskResult = "IngestError"
    /\ cycles >= 2

\* C6: at most one ingest call is in flight at any time, and no cycle (tick or
\* final flush) starts while an ingest call is in flight.
C6_SingleFlight ==
    /\ [](inflight <= 1)
    /\ [][cycles' # cycles => inflight = 0]_vars

C6_Witness ==
    /\ inflight = 1
    /\ posts >= 2
    /\ cyc.branch = "tick"

\* C7: in every state where stop() has returned the task has terminated and no
\* ingest call is in flight, and no ingest call is started afterwards.
C7_StopReturnsAfterTaskExit ==
    /\ [](stopPc = "returned" => (taskPc = "done" /\ inflight = 0 /\ ~rxAlive))
    /\ [][stopPc = "returned" =>
            (ingestCalls' = ingestCalls /\ posts' = posts /\ inflight' = inflight)]_vars

C7_Witness ==
    /\ stopPc = "returned"
    /\ posts >= 1
    /\ stopServiced

\* C8 as stated: a stop request that arrived while a tick's upload was in
\* flight is serviced by the very next select! the task reaches: the branch
\* taken there is the stop branch, never a tick.
C8_StopServicedOnNextIteration ==
    [][(stopMidUpload /\ taskPc = "select" /\ taskPc' # "select") => stopServiced']_vars

\* C8 amended: a stop request that arrives while a tick's upload is in flight
\* does not cancel or interrupt it: the task leaves the upload only when the
\* request is answered, and the stop request stays queued until the select! of
\* a later iteration takes it (that select! may take a due tick instead).
C8_StopDoesNotCancelUpload ==
    /\ [][(stopMidUpload' /\ taskPc = "tick_upload") =>
            \/ (taskPc' = "tick_upload" /\ inflight' = 1 /\ chan' = 1 /\ ~stopServiced')
            \/ (inflight' = 0 /\ cyc'.branch = "tick" /\ cyc'.resp \in Responses
                  /\ chan' = 1 /\ ~stopServiced')]_vars
    /\ [][(stopMidUpload /\ chan = 1 /\ chan' = 0) =>
            (taskPc = "select" /\ inflight = 0 /\ stopServiced')]_vars

C8_Witness ==
    /\ stopMidUpload
    /\ stopServiced
    /\ cyc.branch = "stop"
    /\ posts >= 1

\* C9: a cycle whose payload is empty makes no network call and succeeds: it
\* leaves no request in flight, is no error, and the loop goes on (tick) or
\* ends with success (flush) as it would otherwise; the number of POSTs is the
\* number of cycles with a non-empty payload.
C9_EmptyPayloadNoNetwork ==
    /\ posts = nonEmptyCycles
    /\ cyc.payload = "empty" =>
         /\ cyc.resp = "none"
         /\ cyc.result = "Ok"
         /\ inflight = 0
         /\ taskResult \in {"none", "Ok", "CaptureInitError"}
         /\ cyc.branch = "tick" => taskResult # "Ok"
         /\ cyc.branch = "stop" => (taskPc = "done" /\ taskResult = "Ok")

C9_Witness ==
    /\ cyc.payload = "empty"
    /\ cyc.branch = "tick"
    /\ taskPc = "select"
    /\ posts >= 1
    /\ cycles >= 2

\* C10: an ingest call whose request met a transport failure or was answered
\* with a non-success status results in an IngestError.
C10_NonSuccessIsIngestError ==
    cyc.resp \in {"http_error", "transport_error"} => cyc.result = "IngestError"

\* C11: every cycle with a non-empty payload issues exactly one POST, and every
\* POST carries format=folded and name = the series name build() computed once
\* from the application name and the tags (svc{env=prod} for "svc" with
\* env=prod, a{a=2,z=1} for "a" with z=1 and a=2).
C11_EveryPostCarriesSeriesName ==
    /\ [][(cycles' = cycles + 1 /\ cyc'.payload = "nonempty") =>
            (posts' = posts + 1 /\ lastPost'.name = seriesName /\ lastPost'.format = "folded")]_vars
    /\ [][seriesName' = seriesName]_vars
    /\ [](posts > 0 =>
            /\ lastPost.format = "folded"
            /\ application_name = <<"s", "v", "c">> =>
                 lastPost.name = <<"s", "v", "c", "{", "e", "n", "v", "=", "p", "r", "o", "d", "}">>
            /\ application_name = <<"a">> =>
                 lastPost.name = <<"a", "{", "a", "=", "2", ",", "z", "=", "1", "}">>)

C11_Witness ==
    /\ posts = 1
    /\ cycles = 1
    /\ cyc.branch = "tick"
    /\ lastPost.name = <<"s", "v", "c", "{", "e", "n", "v", "=", "p", "r", "o", "d", "}">>
    /\ lastPost.format = "folded"

\* C14: the window of a report that starts at s is from = s floored to a
\* multiple of 10 and until = from + 10: from % 10 = 0 and from <= s < until,
\* 12345 gives 12340 and 12350, and the width is the upload interval.
C14_WindowFloorsToTenSeconds ==
    lastPost.until > 0 =>
        /\ lastPost.from = 10 * (lastPost.start \div 10)
        /\ lastPost.from % 10 = 0
        /\ lastPost.until = lastPost.from + 10
        /\ lastPost.from <= lastPost.start /\ lastPost.start < lastPost.until
        /\ lastPost.until - lastPost.from = UploadIntervalSecs
        /\ lastPost.start = 12345 => (lastPost.from = 12340 /\ lastPost.until = 12350)

C14_Witness ==
    /\ lastPost.start = 12345
    /\ lastPost.from = 12340
    /\ lastPost.until = 12350

\* s < t in byte order, stated without recursion: at the first position where
\* they differ s has the smaller byte, or s is a proper prefix of t.
C15_LexLt(s, t) ==
    \E k \in 0..Len(s) :
        /\ k <= Len(t)
        /\ \A i \in 1..k : s[i] = t[i]
        /\ \/ (k = Len(s) /\ k < Len(t))
           \/ (k < Len(s) /\ k < Len(t) /\ Code[s[k + 1]] < Code[t[k + 1]])

\* The key=value strings of the entries whose key is not __name__.
C15_KeptStrings(t) ==
    { t[i][1] \o <<"=">> \o t[i][2] : i \in { j \in 1..Len(t) : t[j][1] # ReservedKey } }

\* The strings of a set in ascending order.
C15_Ascending(S) ==
    CHOOSE q \in [1..Cardinality(S) -> S] :
        \A i, j \in 1..Cardinality(S) : i < j => C15_LexLt(q[i], q[j])

\* q[1],q[2],...,q[n] with a comma before every string but the first.
RECURSIVE C15_Commas(_, _)
C15_Commas(q, n) ==
    IF n = 0 THEN <<>>
    ELSE IF n = 1 THEN q[1]
    ELSE C15_Commas(q, n - 1) \o <<",">> \o q[n]

C15_Expected(name, t) ==
    IF C15_KeptStrings(t) = {}
    THEN name
    ELSE name \o <<"{">>
              \o C15_Commas(C15_Ascending(C15_KeptStrings(t)), Cardinality(C15_KeptStrings(t)))
              \o <<"}">>

\* C15: merge(N, T) drops the entries whose key is __name__, formats the rest
\* as key=value, sorts those strings in byte order and joins them with ',';
\* the result is N when nothing remains, else N{joined}; merge("a", {z:1, a:2})
\* is "a{a=2,z=1}".
C15_MergeIsNameWithSortedTags ==
    built =>
        /\ seriesName = C15_Expected(application_name, tags)
        /\ (\A i \in 1..Len(tags) : tags[i][1] = ReservedKey) => seriesName = application_name
        /\ (application_name = <<"a">> /\ tags = << <<<<"z">>, <<"1">>>>, <<<<"a">>, <<"2">>>> >>) =>
              seriesName = <<"a", "{", "a", "=", "2", ",", "z", "=", "1", "}">>

C15_Witness ==
    /\ built
    /\ application_name = <<"s", "v", "c">>
    /\ tags = << <<<<"e", "n", "v">>, <<"p", "r", "o", "d">>>>, <<ReservedKey, <<"1">>>> >>
    /\ seriesName = <<"s", "v", "c", "{", "e", "n", "v", "=", "p", "r", "o", "d", "}">>

\* C16: merge(N, T) is the same string for every order in which the entries
\* of T are enumerated.
C16_MergeIgnoresEnumerationOrder ==
    built =>
        \A p \in [1..Len(tags) -> 1..Len(tags)] :
            (\A i, j \in 1..Len(tags) : i # j => p[i] # p[j]) =>
                merge_tags_with_app_name(application_name, [i \in 1..Len(tags) |-> tags[p[i]]])
                    = seriesName

C16_Witness ==
    /\ built
    /\ application_name = <<"a">>
    /\ tags = << <<<<"z">>, <<"1">>>>, <<<<"a">>, <<"2">>>> >>
    /\ seriesName = <<"a", "{", "a", "=", "2", ",", "z", "=", "1", "}">>

\* C17: when the build of the capture guard fails as the task starts, the task
\* ends at once with that failure: no tick is serviced, no snapshot is taken,
\* no ingest call or POST is made, and the build is not tried again.
C17_InitFailureEndsTask ==
    /\ [](buildErrs > 0 =>
            /\ taskPc = "done"
            /\ taskResult = "CaptureInitError"
            /\ buildErrs = 1
            /\ guards = 0
            /\ inflight = 0)
    /\ []((buildErrs > 0 /\ builds = 1) =>
            (cycles = 0 /\ ingestCalls = 0 /\ posts = 0 /\ lastPost = NoPost))
    /\ [][buildErrs > 0 =>
            (builds' = builds /\ cycles' = cycles /\ ingestCalls' = ingestCalls /\ posts' = posts)]_vars

C17_Witness ==
    /\ buildErrs = 1
    /\ builds = 1
    /\ taskPc = "done"
    /\ ticksDue >= 1
    /\ stopPc = "sent"

\* C18 as stated: the capture guard is built once, when the task is spawned,
\* so a build failure occurs only before the first cycle.
C18_CaptureInitializedOnce ==
    /\ builds <= 1
    /\ buildErrs > 0 => cycles = 0

\* C18 amended: the task builds the capture guard at the top of every loop
\* iteration, once per cycle, and holds it until that cycle ends; a build can
\* fail at any iteration, also after ticks have been serviced, and that ends
\* the task.
C18_GuardBuiltEveryIteration ==
    /\ guards <= 1
    /\ buildErrs <= 1
    /\ taskPc = "loop" => builds = cycles
    /\ taskPc = "select" => builds = cycles + 1
    /\ taskPc \in {"tick_upload", "stop_upload"} => builds = cycles
    /\ taskPc = "done" => builds = cycles + buildErrs
    /\ buildErrs > 0 => (taskPc = "done" /\ taskResult = "CaptureInitError")

C18_Witness ==
    /\ buildErrs = 1
    /\ builds = 3
    /\ cycles = 2
    /\ posts >= 1
    /\ taskResult = "CaptureInitError"

\* C19 as stated: the task ends with success only after a stop request was
\* sent to it (and received).
C19_SuccessOnlyAfterStopRequest ==
    taskResult = "Ok" => stopPc \in {"sent", "returned"}

\* C19 amended: the task ends with success only through the stop branch of the
\* select!, entered on a stop request or once the agent (the sender) has been
\* dropped, and only after the final flush's capture and ingest call returned
\* Ok; a task that has terminated without entering the stop branch has a
\* failure as its result.
C19_SuccessOnlyThroughStopBranch ==
    /\ taskResult = "Ok" =>
         /\ taskPc = "done"
         /\ stopServiced
         /\ cyc.branch = "stop"
         /\ cyc.result = "Ok"
         /\ flushIngests = 1
         /\ stopPc \in {"sent", "returned", "dropped"}
    /\ (taskPc = "done" /\ ~stopServiced) =>
         taskResult \in {"CaptureInitError", "CaptureSnapshotError", "IngestError"}

C19_Witness ==
    /\ taskResult = "Ok"
    /\ stopPc = "dropped"
    /\ flushIngests = 1
    /\ cycles >= 2

\* C20: at most one capture guard is alive at any time: none at the top of the
\* loop or after the task has ended, one while a cycle is awaited or runs, and
\* a guard is built only when none is alive.
C20_AtMostOneGuard ==
    /\ [](guards <= 1)
    /\ [](taskPc \in {"loop", "done"} => guards = 0)
    /\ [](taskPc \in {"select", "tick_upload", "stop_upload"} => guards = 1)
    /\ [][guards' > guards => guards = 0]_vars

C20_Witness ==
    /\ taskPc = "loop"
    /\ guards = 0
    /\ builds >= 2
    /\ posts >= 1

====
